---- MODULE Spec2Model ----
(***************************************************************************)
(* Model of claude-skills-daemon.py: the SkillsFileHandler that reacts to  *)
(* created/modified events of the watch folder, waits for the file to be   *)
(* completely written, matches it to a skill, reads it, appends it to the  *)
(* skill's document and archives it.                                       *)
(*                                                                         *)
(* One handler instance handles one event at a time (pc says where it is); *)
(* the file system is shared with an external writer that may write or     *)
(* delete files of the watch folder between any two steps of the handler.  *)
(***************************************************************************)
EXTENDS Integers, Sequences, FiniteSets, TLC

\* ------------------------------------------------------------------ bounds
\* number of external writes (each gets a fresh modification time)
MaxClock == 2
\* file sizes range over 0..MaxSize
MaxSize == 2

\* ------------------------------------------------------- program constants
\* _wait_for_file_ready(filepath, max_retries=10)
max_retries == 10
\* _read_file_with_retry(filepath, max_retries=5)
read_max_retries == 5
\* wait_time = 0.1, in units of 1/1024 ms
WaitStart == 102400
\* min(wait_time * 1.5, 2.0): the cap, in units of 1/1024 ms
WaitCap == 2048000
\* '=' * 80
SepWidth == 80

\* ------------------------------------------------------------------- values
\* no file at a location (a file has a modification time of 1 or more)
NoFile == [mtime |-> 0, size |-> 0]
\* _match_file_to_skill returned None
NoSkill == [name |-> "", doc_id |-> "", skill_name |-> ""]
\* skill_config['doc_id'] raised KeyError
KeyError == [name |-> "KeyError", doc_id |-> "", skill_name |-> ""]
\* a key a skill entry does not have
NoKey == "NoKey"
\* a skill entry without a pattern (None or the empty string)
NoPattern == <<>>
NoEvent == [kind |-> "none", src_path |-> <<>>, is_directory |-> FALSE]
NoFileId == <<>>

Sizes == 0..MaxSize
Mtimes == 1..MaxClock

\* file names of the watch folder, with their characters (fnmatch works on these)
FileNames == {"ab", "b"}
NameChars(n) == IF n = "ab" THEN <<"a", "b">> ELSE <<"b">>

\* ---------------------------------------------------------------- os.path
\* a path is the sequence of its components below the root

\* os.path.join(folder, filename)
Join(folder, filename) == Append(folder, filename)

\* os.path.basename(path)
Basename(path) == path[Len(path)]

RECURSIVE NormFrom(_, _)
NormFrom(done, rest) ==
    IF rest = <<>> THEN done
    ELSE LET c == Head(rest) IN
         IF c = "" \/ c = "." THEN NormFrom(done, Tail(rest))
         ELSE IF c = ".."
              THEN NormFrom(IF done = <<>> THEN <<>> ELSE SubSeq(done, 1, Len(done) - 1),
                            Tail(rest))
              ELSE NormFrom(Append(done, c), Tail(rest))

\* os.path.normpath(path) of an absolute path
Normpath(path) == NormFrom(<<>>, path)

\* ---------------------------------------------------------------- fnmatch
RECURSIVE GlobMatch(_, _)
GlobMatch(s, p) ==
    IF p = <<>> THEN s = <<>>
    ELSE IF Head(p) = "*"
         THEN GlobMatch(s, Tail(p)) \/ (s # <<>> /\ GlobMatch(Tail(s), p))
         ELSE IF Head(p) = "?"
              THEN s # <<>> /\ GlobMatch(Tail(s), Tail(p))
              ELSE s # <<>> /\ Head(s) = Head(p) /\ GlobMatch(Tail(s), Tail(p))

\* fnmatch.fnmatch(filename, pattern)
fnmatch(filename, pattern) == GlobMatch(NameChars(filename), pattern)

\* ----------------------------------------------------------- configuration
\* a skill entry of config['skills']: key name, pattern (NoPattern: none),
\* doc_id (NoKey: the key is missing), skill_name (NoKey: none configured)
SkillNotes == [name |-> "notes", pattern |-> <<"a", "*">>, doc_id |-> "D1", skill_name |-> "Notes"]
SkillAny2 == [name |-> "two", pattern |-> <<"?", "b">>, doc_id |-> "D2", skill_name |-> NoKey]
SkillNoDoc == [name |-> "nodoc", pattern |-> <<"b">>, doc_id |-> NoKey, skill_name |-> NoKey]
SkillNoPat == [name |-> "nopat", pattern |-> NoPattern, doc_id |-> "D1", skill_name |-> "NoPat"]

WatchFolder == <<"home", "watch">>
ArchiveFolders == { <<"home", "archive">>, <<"home", "watch", ".">> }

\* the configurations: overlapping patterns with either archive folder, and
\* entries without a pattern, a display name or a doc_id
Configs ==
    [watch_folder : {WatchFolder}, archive_folder : ArchiveFolders,
     skills : { <<SkillNotes, SkillAny2>> }]
    \cup
    [watch_folder : {WatchFolder}, archive_folder : { <<"home", "archive">> },
     skills : { <<SkillNoPat, SkillAny2, SkillNoDoc>> }]

WatchPaths == { Join(WatchFolder, n) : n \in FileNames }
Locations == { Normpath(Join(f, n)) : f \in {WatchFolder} \cup ArchiveFolders, n \in FileNames }
FileIds == WatchPaths \X Mtimes

\* -------------------------------------------------------------------- state
VARIABLES
    config,          \* self.config, loaded once and never changed
    fs,              \* the file system: location -> NoFile or [mtime, size]
    clock,           \* the modification time the next external write gets
    pc,              \* where the handler is in the handling of the event
    event,           \* the event being handled: [kind, src_path, is_directory]
    last_size,       \* _wait_for_file_ready: last_size
    retry_count,     \* _wait_for_file_ready: retry_count
    wait_time,       \* _wait_for_file_ready: wait_time (1/1024 ms)
    file_id,         \* process_file: file_id, as <<filepath, mtime>>
    skill_config,    \* process_file: skill_config
    content,         \* process_file: content
    attempt,         \* _read_file_with_retry: attempt
    reading,         \* history: the open() calls and the sleeps of _read_file_with_retry
    docs_service,    \* self.docs_service is set
    last_processed,  \* self.last_processed
    doc,             \* history: the document documents().get() just returned
    requests,        \* history: the requests of the batchUpdate that just succeeded
    outcome,         \* how the handling of the event ended
    did,             \* history: the operations done in this handling
    observed,        \* history: the size observations of this handling (see Observe)
    appendCount      \* history: file identity -> number of successful appends

vars == << config, fs, clock, pc, event, last_size, retry_count, wait_time, file_id,
           skill_config, content, attempt, reading, docs_service, last_processed, doc,
           requests, outcome, did, observed, appendCount >>

waitVars == << last_size, retry_count, wait_time >>
fileVars == << file_id, skill_config, content, attempt, reading >>
sentVars == << doc, requests >>
envVars == << config, fs, clock >>

NoReading == [attempts |-> 0, waits |-> <<>>]
NoObservation == [n |-> 0, errors |-> 0, prev |-> -1, stable |-> FALSE, nonzero |-> FALSE]

\* the file at a path, or NoFile
FileAt(path) == fs[Normpath(path)]

\* os.path.exists(filepath)
Exists(path) == FileAt(path) # NoFile

\* the text of a file: its size in characters, all naming its version
Digits == <<"1", "2", "3", "4", "5", "6", "7", "8", "9">>
ContentOf(file) == [i \in 1..file.size |-> Digits[file.mtime]]

\* --------------------------------------------------------- pure functions
\* mutant: the filter lets every filename through
matches_any_patternAlways(cfg, filename) == TRUE

\* mutant: the filter looks at the first configured skill only
matches_any_patternFirstOnly(cfg, filename) ==
    /\ Len(cfg.skills) > 0
    /\ cfg.skills[1].pattern # NoPattern
    /\ fnmatch(filename, cfg.skills[1].pattern)

\* _matches_any_pattern(filename)
matches_any_pattern(cfg, filename) ==
    \E i \in 1..Len(cfg.skills) :
        /\ cfg.skills[i].pattern # NoPattern
        /\ fnmatch(filename, cfg.skills[i].pattern)

\* skill_config.get('skill_name', skill_name)
GetSkillName(entry) == IF entry.skill_name = NoKey THEN entry.name ELSE entry.skill_name

RECURSIVE MatchFrom(_, _, _)
MatchFrom(skills, i, filename) ==
    IF i > Len(skills) THEN NoSkill
    ELSE IF skills[i].pattern # NoPattern /\ fnmatch(filename, skills[i].pattern)
         THEN IF skills[i].doc_id = NoKey THEN KeyError
              ELSE [name |-> skills[i].name,
                    doc_id |-> skills[i].doc_id,
                    skill_name |-> GetSkillName(skills[i])]
         ELSE MatchFrom(skills, i + 1, filename)

\* _match_file_to_skill(filename)
match_file_to_skill(cfg, filename) == MatchFrom(cfg.skills, 1, filename)

\* mutant: the duplicate check never finds the file identity
AlreadyProcessedNever(fid, processed) == FALSE

\* file_id in self.last_processed
AlreadyProcessed(fid, processed) == fid \in processed

\* mutant: the size check without "and current_size > 0"
SizeStableAnySize(current_size, last) == current_size = last

\* mutant: the size check with >= for ==
SizeStableGrowing(current_size, last) == current_size >= last /\ current_size > 0

\* current_size == last_size and current_size > 0
SizeStable(current_size, last) == current_size = last /\ current_size > 0

\* mutant: the backoff without its cap
BackoffUncapped(w) == (w * 3) \div 2

\* wait_time = min(wait_time * 1.5, 2.0)
Backoff(w) == IF (w * 3) \div 2 < WaitCap THEN (w * 3) \div 2 ELSE WaitCap

\* the name process_file hands to _append_to_doc
AppendName(sc) == sc.name

\* separator = f"\n\n{'=' * 80}\n"
Separator == <<"\n\n">> \o [i \in 1..SepWidth |-> "="] \o <<"\n">>
\* header = f"Added by {skill_name} daemon at {timestamp}\n"
Header(skill_name, timestamp) == <<"Added by ", skill_name, " daemon at ", timestamp, "\n">>
\* footer = f"\n{'=' * 80}\n\n"
Footer == <<"\n">> \o [i \in 1..SepWidth |-> "="] \o <<"\n\n">>
\* full_content = separator + header + separator + content + footer
FullContent(text, skill_name, timestamp) ==
    Separator \o Header(skill_name, timestamp) \o Separator \o text \o Footer

\* the documents the service may return: the endIndex of each block of body.content
DocBodies == { <<2>>, <<1, 6>> }
Timestamps == { "2024-01-01 10:00:00", "2024-01-01 10:00:01" }

\* mutant: the end offset of the first block for that of the last
EndIndexFirstBlock(document) == document[1] - 1

\* doc.get('body').get('content')[-1].get('endIndex') - 1
EndIndex(document) == document[Len(document)] - 1

\* requests = [{'insertText': {'location': {'index': end_index}, 'text': full_content}}]
InsertRequests(document, text, skill_name, timestamp) ==
    << [insertText |-> [location |-> [index |-> EndIndex(document)],
                        text |-> FullContent(text, skill_name, timestamp)]] >>

\* mutant: the paths compared as written, without os.path.normpath
SamePathAsWritten(archive_path, filepath) == archive_path = filepath

\* os.path.normpath(archive_path) == os.path.normpath(filepath)
SamePath(archive_path, filepath) == Normpath(archive_path) = Normpath(filepath)

\* ------------------------------------------------------------ construction
\* SkillsFileHandler.__init__, with any configuration and an empty watch folder
Init ==
    /\ config \in Configs
    /\ fs = [l \in Locations |-> NoFile]
    /\ clock = 1
    /\ pc = "idle"
    /\ event = NoEvent
    /\ last_size = -1
    /\ retry_count = 0
    /\ wait_time = WaitStart
    /\ file_id = NoFileId
    /\ skill_config = NoSkill
    /\ content = <<>>
    /\ attempt = 0
    /\ reading = NoReading
    /\ docs_service = FALSE
    /\ last_processed = {}
    /\ doc = <<>>
    /\ requests = <<>>
    /\ outcome = "none"
    /\ did = {}
    /\ observed = NoObservation
    /\ appendCount = [f \in FileIds |-> 0]

\* the handling ends with the given outcome
Finish(o) == pc' = "done" /\ outcome' = o

\* -------------------------------------------------------- the external writer
\* a skill writes (creates, extends or rewrites) a file of the watch folder
ExternalWrite ==
    /\ clock <= MaxClock
    /\ \E p \in WatchPaths, s \in Sizes :
          fs' = [fs EXCEPT ![Normpath(p)] = [mtime |-> clock, size |-> s]]
    /\ clock' = clock + 1
    /\ UNCHANGED << config, pc, event, waitVars, fileVars, docs_service, last_processed,
                    sentVars, outcome, did, observed, appendCount >>

\* a file of the watch folder is removed by someone else
ExternalDelete ==
    /\ \E p \in WatchPaths :
          /\ Exists(p)
          /\ fs' = [fs EXCEPT ![Normpath(p)] = NoFile]
    /\ UNCHANGED << config, clock, pc, event, waitVars, fileVars, docs_service,
                    last_processed, sentVars, outcome, did, observed, appendCount >>

\* --------------------------------------------------------------- dispatcher
\* on_created(event)
on_created ==
    /\ pc = "idle"
    /\ \E n \in FileNames, d \in BOOLEAN :
          /\ event' = [kind |-> "created", src_path |-> Join(config.watch_folder, n),
                       is_directory |-> d]
          /\ IF d THEN Finish("Directory")
                  ELSE pc' = "wait_for_file_ready" /\ outcome' = "none"
    /\ UNCHANGED << envVars, waitVars, fileVars, docs_service, last_processed, sentVars,
                    did, observed, appendCount >>

\* on_modified(event)
on_modified ==
    /\ pc = "idle"
    /\ \E n \in FileNames, d \in BOOLEAN :
          /\ event' = [kind |-> "modified", src_path |-> Join(config.watch_folder, n),
                       is_directory |-> d]
          /\ IF d THEN Finish("Directory")
             ELSE IF matches_any_pattern(config, n)
                  THEN pc' = "wait_for_file_ready" /\ outcome' = "none"
                  ELSE Finish("Filtered")
    /\ UNCHANGED << envVars, waitVars, fileVars, docs_service, last_processed, sentVars,
                    did, observed, appendCount >>

\* the handler returns to the observer; the locals of the handling are gone
Return ==
    /\ pc = "done"
    /\ pc' = "idle"
    /\ event' = NoEvent
    /\ last_size' = -1
    /\ retry_count' = 0
    /\ wait_time' = WaitStart
    /\ file_id' = NoFileId
    /\ skill_config' = NoSkill
    /\ content' = <<>>
    /\ attempt' = 0
    /\ reading' = NoReading
    /\ doc' = <<>>
    /\ requests' = <<>>
    /\ outcome' = "none"
    /\ did' = {}
    /\ observed' = NoObservation
    /\ UNCHANGED << envVars, docs_service, last_processed, appendCount >>

\* ------------------------------------------------------ _wait_for_file_ready
\* history: one more size was observed; stable records that two consecutive
\* observations were equal and greater than zero
Observe(o, size) ==
    [n |-> o.n + 1, errors |-> o.errors, prev |-> size,
     stable |-> o.stable \/ (o.n > 0 /\ o.prev = size /\ size > 0),
     nonzero |-> o.nonzero \/ size > 0]

\* mutant: with the budget used up the file is processed all the same
NextRoundProceeds(count) ==
    /\ retry_count' = count
    /\ pc' = IF count < max_retries THEN "wait_loop" ELSE "process_file"
    /\ outcome' = outcome

\* the loop goes round again, or the budget is used up and the result is False
NextRound(count) ==
    /\ retry_count' = count
    /\ IF count < max_retries
       THEN pc' = "wait_loop" /\ outcome' = outcome
       ELSE Finish("Abandoned")

\* if not os.path.exists(filepath): return False; and the locals of the loop
WaitEnter ==
    /\ pc = "wait_for_file_ready"
    /\ IF Exists(event.src_path)
       THEN pc' = "wait_loop" /\ outcome' = outcome
       ELSE Finish("Abandoned")
    /\ last_size' = -1
    /\ retry_count' = 0
    /\ wait_time' = WaitStart
    /\ UNCHANGED << envVars, event, fileVars, docs_service, last_processed, sentVars,
                    did, observed, appendCount >>

\* one round of the loop in which os.path.getsize returns
WaitGetsize ==
    /\ pc = "wait_loop"
    /\ retry_count < max_retries
    /\ Exists(event.src_path)
    /\ LET current_size == FileAt(event.src_path).size IN
          /\ observed' = Observe(observed, current_size)
          /\ IF SizeStable(current_size, last_size)
             THEN /\ pc' = "process_file"
                  /\ UNCHANGED << waitVars, outcome >>
             ELSE /\ last_size' = current_size
                  /\ wait_time' = Backoff(wait_time)
                  /\ NextRound(retry_count + 1)
    /\ UNCHANGED << envVars, event, fileVars, docs_service, last_processed, sentVars,
                    did, appendCount >>

\* mutant: a size-read error ends the loop as not-ready
ErrorRoundGivesUp(count) == retry_count' = count /\ Finish("Abandoned")

\* except (OSError, IOError): sleep, retry_count += 1, and the loop test
ErrorRound(count) == NextRound(count)

\* one round of the loop in which os.path.getsize raises OSError: the file is
\* gone
WaitGetsizeError ==
    /\ pc = "wait_loop"
    /\ retry_count < max_retries
    /\ ~Exists(event.src_path)
    /\ observed' = [observed EXCEPT !.errors = @ + 1]
    /\ ErrorRound(retry_count + 1)
    /\ UNCHANGED << envVars, event, last_size, wait_time, fileVars, docs_service,
                    last_processed, sentVars, did, appendCount >>

\* ------------------------------------------------------------- process_file
\* mutant: the file identity is not added
MarkProcessedNothing(processed, fid) == processed

\* self.last_processed.add(file_id)
MarkProcessed(processed, fid) == processed \cup {fid}

\* mutant: the file identity is marked as soon as it passed the duplicate check
MarkAtDuplicateCheck(processed, fid) == processed \cup {fid}

\* what the duplicate check leaves in self.last_processed: it only reads the set
AfterDuplicateCheck(processed, fid) == processed

\* mutant: _archive_file re-raises, and process_file logs the file as failed
ArchiveFailureRaised == "FailedArchive"

\* _archive_file: except Exception logs the error and returns
ArchiveFailureOutcome == "ArchiveFailed"

\* file_id = f"{filepath}:{os.path.getmtime(filepath)}", the duplicate check and
\* _match_file_to_skill. os.path.getmtime stands before the try block: when the
\* file is gone its error leaves process_file and the event handler.
ProcessFileStart ==
    /\ pc = "process_file"
    /\ IF ~Exists(event.src_path)
       THEN /\ Finish("Escaped")
            /\ UNCHANGED << file_id, skill_config, last_processed >>
       ELSE LET fid == << event.src_path, FileAt(event.src_path).mtime >>
                sc == match_file_to_skill(config, Basename(event.src_path))
            IN  /\ file_id' = fid
                /\ last_processed' = AfterDuplicateCheck(last_processed, fid)
                /\ IF AlreadyProcessed(fid, last_processed)
                   THEN Finish("Skipped") /\ UNCHANGED skill_config
                   ELSE IF sc = KeyError
                        THEN Finish("FailedMatch") /\ UNCHANGED skill_config
                        ELSE IF sc = NoSkill
                             THEN Finish("Ignored") /\ UNCHANGED skill_config
                             ELSE /\ skill_config' = sc
                                  /\ pc' = "read"
                                  /\ outcome' = outcome
    /\ UNCHANGED << envVars, event, waitVars, content, attempt, reading, docs_service,
                    sentVars, did, observed, appendCount >>

\* mutant: the delay does not grow with the attempts
ReadDelayFlat(a) == 500

\* time.sleep(0.5 * (attempt + 1)), in ms
ReadDelay(a) == 500 * (a + 1)

\* mutant: one retry more than the budget
CanRetryReadOnceMore(a) == a < read_max_retries

\* if attempt < max_retries - 1
CanRetryRead(a) == a < read_max_retries - 1

\* mutant: an empty content is appended like any other
ContentMissingNever(text) == FALSE

\* if not content
ContentMissing(text) == text = <<>>

\* _read_file_with_retry: an attempt that reads the whole file; process_file
\* gives up on an empty content
ReadOk ==
    /\ pc = "read"
    /\ Exists(event.src_path)
    /\ content' = ContentOf(FileAt(event.src_path))
    /\ did' = did \cup {"read"}
    /\ reading' = [reading EXCEPT !.attempts = @ + 1]
    /\ IF ContentMissing(content')
       THEN Finish("EmptyRead")
       ELSE pc' = "chmod" /\ outcome' = outcome
    /\ UNCHANGED << envVars, event, waitVars, file_id, skill_config, attempt, docs_service,
                    last_processed, sentVars, observed, appendCount >>

\* _read_file_with_retry: an attempt that raises PermissionError
ReadPermissionError ==
    /\ pc = "read"
    /\ did' = did \cup {"read"}
    /\ IF CanRetryRead(attempt)
       THEN /\ reading' = [attempts |-> reading.attempts + 1,
                           waits |-> Append(reading.waits, ReadDelay(attempt))]
            /\ attempt' = attempt + 1
            /\ pc' = "read"
            /\ outcome' = outcome
       ELSE /\ reading' = [reading EXCEPT !.attempts = @ + 1]
            /\ Finish("FailedRead")
            /\ UNCHANGED attempt
    /\ UNCHANGED << envVars, event, waitVars, file_id, skill_config, content, docs_service,
                    last_processed, sentVars, observed, appendCount >>

\* _read_file_with_retry: an attempt that raises anything else (the file is
\* gone, it is not valid UTF-8, ...)
ReadOtherError ==
    /\ pc = "read"
    /\ did' = did \cup {"read"}
    /\ reading' = [reading EXCEPT !.attempts = @ + 1]
    /\ Finish("FailedRead")
    /\ UNCHANGED << envVars, event, waitVars, file_id, skill_config, content, attempt,
                    docs_service, last_processed, sentVars, observed, appendCount >>

\* mutant: the client is built for every file
NeedsInitAlways(service) == TRUE

\* if not self.docs_service
NeedsInit(service) == ~service

\* os.chmod(filepath, 0o644); whether it fails or not, process_file goes on (the
\* mode bits are not part of the state)
Chmod ==
    /\ pc = "chmod"
    /\ did' = did \cup {"chmod"}
    /\ pc' = IF NeedsInit(docs_service) THEN "init" ELSE "append"
    /\ UNCHANGED << envVars, event, waitVars, fileVars, docs_service, last_processed,
                    sentVars, outcome, observed, appendCount >>

\* _init_google_service() builds the client
InitGoogleServiceOk ==
    /\ pc = "init"
    /\ did' = did \cup {"init"}
    /\ docs_service' = TRUE
    /\ pc' = "append"
    /\ UNCHANGED << envVars, event, waitVars, fileVars, last_processed, sentVars,
                    outcome, observed, appendCount >>

\* _init_google_service() logs and re-raises
InitGoogleServiceError ==
    /\ pc = "init"
    /\ did' = did \cup {"init"}
    /\ Finish("FailedInit")
    /\ UNCHANGED << envVars, event, waitVars, fileVars, docs_service, last_processed,
                    sentVars, observed, appendCount >>

\* _append_to_doc(doc_id, content, skill_config['name']) returns, and
\* process_file marks the file as processed
AppendToDocOk ==
    /\ pc = "append"
    /\ \E d \in DocBodies, timestamp \in Timestamps :
          /\ doc' = d
          /\ requests' = InsertRequests(d, content, AppendName(skill_config), timestamp)
    /\ appendCount' = [appendCount EXCEPT ![file_id] = @ + 1]
    /\ last_processed' = MarkProcessed(last_processed, file_id)
    /\ did' = did \cup {"append", "mark"}
    /\ pc' = "archive"
    /\ UNCHANGED << envVars, event, waitVars, fileVars, docs_service, outcome, observed >>

\* _append_to_doc: documents().get() or batchUpdate() raises
AppendToDocError ==
    /\ pc = "append"
    /\ did' = did \cup {"append_failed"}
    /\ Finish("FailedAppend")
    /\ UNCHANGED << envVars, event, waitVars, fileVars, docs_service, last_processed,
                    sentVars, observed, appendCount >>

\* ------------------------------------------------------------ _archive_file
\* archive_path = os.path.join(archive_folder, filename)
ArchivePath(cfg, filepath) == Join(cfg.archive_folder, Basename(filepath))

\* the archive path is the source path: the file stays where it is
ArchiveStay ==
    /\ pc = "archive"
    /\ doc' = <<>> /\ requests' = <<>>
    /\ SamePath(ArchivePath(config, event.src_path), event.src_path)
    /\ Finish("StayedInPlace")
    /\ UNCHANGED << envVars, event, waitVars, fileVars, docs_service, last_processed,
                    did, observed, appendCount >>

\* os.rename(filepath, archive_path)
ArchiveRename ==
    /\ pc = "archive"
    /\ doc' = <<>> /\ requests' = <<>>
    /\ ~SamePath(ArchivePath(config, event.src_path), event.src_path)
    /\ Exists(event.src_path)
    /\ fs' = [fs EXCEPT ![Normpath(event.src_path)] = NoFile,
                        ![Normpath(ArchivePath(config, event.src_path))] =
                              FileAt(event.src_path)]
    /\ did' = did \cup {"move"}
    /\ Finish("Archived")
    /\ UNCHANGED << config, clock, event, waitVars, fileVars, docs_service, last_processed,
                    observed, appendCount >>

\* os.makedirs or os.rename raises (the file is gone, the archive folder cannot
\* be made or is on another device): logged, not raised
ArchiveError ==
    /\ pc = "archive"
    /\ doc' = <<>> /\ requests' = <<>>
    /\ did' = did \cup {"archive_failed"}
    /\ Finish(ArchiveFailureOutcome)
    /\ UNCHANGED << envVars, event, waitVars, fileVars, docs_service, last_processed,
                    observed, appendCount >>

\* ------------------------------------------------------------ specification
Next ==
    \/ ExternalWrite
    \/ ExternalDelete
    \/ on_created
    \/ on_modified
    \/ WaitEnter
    \/ WaitGetsize
    \/ WaitGetsizeError
    \/ ProcessFileStart
    \/ ReadOk
    \/ ReadPermissionError
    \/ ReadOtherError
    \/ Chmod
    \/ InitGoogleServiceOk
    \/ InitGoogleServiceError
    \/ AppendToDocOk
    \/ AppendToDocError
    \/ ArchiveStay
    \/ ArchiveRename
    \/ ArchiveError
    \/ Return

Spec == Init /\ [][Next]_vars

\* ================================================================== claims
\* the positions of process_file, reached only when _wait_for_file_ready
\* returned True
InProcessFile == pc \in {"process_file", "read", "chmod", "init", "append", "archive"}

\* the handling ended after _wait_for_file_ready returned True
EndedInProcessFile ==
    pc = "done" /\ outcome \notin {"Directory", "Filtered", "Abandoned"}

\* C1: for every file identity (path, modification time), the number of
\* successful appends issued for it is at most one.
C1_AppendAtMostOnce == \A f \in FileIds : appendCount[f] <= 1

\* C1 witness: a file identity was appended once, the file is still at its
\* path with the same modification time, and a later event for it has passed
\* the readiness check and stands before the duplicate check.
C1_Witness ==
    /\ pc = "process_file"
    /\ Exists(event.src_path)
    /\ appendCount[<< event.src_path, FileAt(event.src_path).mtime >>] = 1

\* C2: no exception escapes on_created/on_modified: every failure of the
\* handling of a file is caught inside the per-file handler.
C2_NoExceptionEscapes == outcome # "Escaped"

\* C3: an event for a path whose (path, modification time) is in the
\* processed set ends at the duplicate check: the handler's step from there
\* ends the handling as skipped, with no read, permission change, append or
\* move, and with the processed set and the file system as they were.
C3_DuplicateIsNoOp ==
    [][ ( /\ pc = "process_file"
          /\ pc' # pc
          /\ Exists(event.src_path)
          /\ << event.src_path, FileAt(event.src_path).mtime >> \in last_processed )
        => ( /\ pc' = "done"
             /\ outcome' = "Skipped"
             /\ did' = {}
             /\ UNCHANGED << fs, last_processed, appendCount, content, sentVars,
                             docs_service >> ) ]_vars

\* C3 witness: the handling of an event for an already appended file identity
\* ended as skipped and did nothing.
C3_Witness ==
    /\ pc = "done"
    /\ outcome = "Skipped"
    /\ file_id \in last_processed
    /\ appendCount[file_id] = 1
    /\ did = {}

\* C4: _wait_for_file_ready returns True only when some observed size was not
\* zero: whenever the handling is in process_file, or ended there, a non-zero
\* size was observed during the event; and while every observation is zero no
\* operation of process_file has been done.
C4_ZeroNeverReady ==
    /\ (InProcessFile \/ EndedInProcessFile) => observed.nonzero
    /\ ~observed.nonzero => did = {}

\* C4 witness: the whole budget was spent on observations of an empty file, all
\* equal, and the result was not-ready.
C4_Witness ==
    /\ pc = "done"
    /\ outcome = "Abandoned"
    /\ observed.n = max_retries
    /\ ~observed.nonzero

\* C5: _wait_for_file_ready returns True exactly when two consecutive size
\* observations, among at most max_retries attempts, were equal and greater
\* than zero; it returns False when the file does not exist at entry.
C5_ReadyIffStable ==
    /\ [](observed.n + observed.errors <= max_retries)
    /\ []((InProcessFile \/ EndedInProcessFile) => observed.stable)
    /\ []((pc = "wait_loop" \/ (pc = "done" /\ outcome = "Abandoned")) => ~observed.stable)
    /\ [][ (pc = "wait_for_file_ready" /\ pc' # pc /\ ~Exists(event.src_path))
           => (pc' = "done" /\ outcome' = "Abandoned" /\ observed' = NoObservation) ]_vars

\* C5 witness: after a size-read error and at least four observations, two
\* consecutive observations were equal and non-zero and the result was ready.
C5_Witness ==
    /\ pc = "process_file"
    /\ observed.stable
    /\ observed.n >= 4
    /\ observed.errors >= 1

\* the configured entry of the matched skill
EntryOf(cfg, sc) ==
    CHOOSE e \in { cfg.skills[i] : i \in 1..Len(cfg.skills) } : e.name = sc.name

\* the name in the header line of an inserted text
HeaderNameOf(text) == text[SepWidth + 4]

\* C6: the name in the envelope header of an append is the display name of the
\* matched skill: its configured skill_name, or its key name when it has none.
C6_HeaderNamesDisplayName ==
    requests # <<>> =>
        HeaderNameOf(requests[1].insertText.text)
            = (IF EntryOf(config, skill_config).skill_name = NoKey
               THEN EntryOf(config, skill_config).name
               ELSE EntryOf(config, skill_config).skill_name)

\* C7: a successful append issues exactly one insert-text request; its text is
\* the separator, the header line, the separator, the content as read, and the
\* trailing separator with the blank line, in this order; its index is the
\* endIndex of the last block of the document, minus 1.
C7_SingleInsertEnvelope ==
    requests # <<>> =>
        LET text == requests[1].insertText.text
            bar == [i \in 1..80 |-> "="]
            n == Len(content)
        IN  /\ Len(requests) = 1
            /\ DOMAIN requests[1] = {"insertText"}
            /\ requests[1].insertText.location.index = doc[Len(doc)] - 1
            /\ \E m \in Mtimes, k \in 1..MaxSize : content = [i \in 1..k |-> Digits[m]]
            /\ Len(text) = 82 + 5 + 82 + n + 82
            /\ SubSeq(text, 1, 82) = <<"\n\n">> \o bar \o <<"\n">>
            /\ text[83] = "Added by "
            /\ text[84] \in {skill_config.name, skill_config.skill_name}
            /\ text[85] = " daemon at "
            /\ text[86] \in Timestamps
            /\ text[87] = "\n"
            /\ SubSeq(text, 88, 169) = <<"\n\n">> \o bar \o <<"\n">>
            /\ SubSeq(text, 170, 169 + n) = content
            /\ SubSeq(text, 170 + n, 251 + n) = <<"\n">> \o bar \o <<"\n\n">>

\* C7 witness: an append into a document of several blocks has just succeeded,
\* with a content of more than one character.
C7_Witness ==
    /\ pc = "archive"
    /\ requests # <<>>
    /\ Len(doc) > 1
    /\ Len(content) > 1

\* C8: once the append of a file has succeeded, its identity is in the
\* processed set and stays there, the handling ends as a success whether the
\* file was moved, stayed in place or the archive step failed, and the identity
\* has been appended exactly once.
C8_ArchiveKeepsSuccess ==
    /\ "append" \in did =>
          /\ file_id \in last_processed
          /\ appendCount[file_id] = 1
          /\ \/ pc = "archive"
             \/ pc = "done" /\ outcome \in {"Archived", "StayedInPlace", "ArchiveFailed"}
    /\ \A f \in FileIds : appendCount[f] >= 1 => f \in last_processed

\* C8 witness: the append succeeded, the archive step failed, and the handling
\* ended with the marker in place.
C8_Witness ==
    /\ pc = "done"
    /\ outcome = "ArchiveFailed"
    /\ "append" \in did
    /\ file_id \in last_processed

\* the step of _archive_file for the file of the event
ArchiveStep == pc = "archive" /\ pc' = "done"
ArchiveIsSource ==
    Normpath(Append(config.archive_folder, event.src_path[Len(event.src_path)]))
        = Normpath(event.src_path)
ArchiveLocation ==
    Normpath(Append(config.archive_folder, event.src_path[Len(event.src_path)]))

\* C9 as stated: when the archive path normalises to the source path nothing
\* is moved and nothing raised; in every other case the file is moved to the
\* archive folder under its base name.
C9_MovedUnlessSamePath ==
    [][ ArchiveStep =>
          IF ArchiveIsSource
          THEN fs' = fs /\ "move" \notin did' /\ outcome' # "Escaped"
          ELSE /\ Exists(event.src_path)
               /\ fs'[ArchiveLocation] = FileAt(event.src_path)
               /\ fs'[Normpath(event.src_path)] = NoFile ]_vars

\* C9 amended: when the archive path normalises to the source path nothing is
\* moved and nothing raised; in every other case either the file is moved to
\* the archive folder under its base name, or making the folder or the move
\* fails, and then nothing is moved and nothing raised.
C9_MovedUnlessSamePathOrFailure ==
    [][ ArchiveStep =>
          IF ArchiveIsSource
          THEN /\ fs' = fs
               /\ "move" \notin did'
               /\ outcome' \in {"StayedInPlace", "ArchiveFailed"}
          ELSE \/ /\ outcome' = "Archived"
                  /\ "move" \in did'
                  /\ Exists(event.src_path)
                  /\ fs' = [fs EXCEPT ![Normpath(event.src_path)] = NoFile,
                                      ![ArchiveLocation] = FileAt(event.src_path)]
               \/ /\ outcome' = "ArchiveFailed"
                  /\ "move" \notin did'
                  /\ fs' = fs ]_vars

\* C9 witness: with the archive folder written as the watch folder plus ".",
\* the file stayed at its path in the watch folder.
C9_Witness ==
    /\ pc = "done"
    /\ outcome = "StayedInPlace"
    /\ config.archive_folder # config.watch_folder
    /\ Exists(event.src_path)
    /\ file_id = << event.src_path, FileAt(event.src_path).mtime >>

\* C10: the processed set changes only in the step in which an append
\* succeeds, and then by the identity of the appended file; so a handling that
\* ends without a successful append leaves the set as it was, and the identity
\* of its file is not in the set.
C10_MarkedOnlyAfterAppend ==
    /\ [][ last_processed' # last_processed =>
              /\ pc = "append" /\ pc' = "archive"
              /\ appendCount'[file_id] = appendCount[file_id] + 1
              /\ last_processed' = last_processed \cup {file_id} ]_vars
    /\ []( (pc = "done" /\ "append" \notin did /\ file_id # NoFileId /\ outcome # "Skipped")
              => file_id \notin last_processed )

\* C10 witness: the append of a read file failed and the handling ended with
\* the identity of the file not in the processed set.
C10_Witness ==
    /\ pc = "done"
    /\ outcome = "FailedAppend"
    /\ "read" \in did
    /\ file_id \notin last_processed

\* the file name of the event matches no configured skill pattern
NoPatternMatches(cfg, n) ==
    \A i \in 1..Len(cfg.skills) :
        cfg.skills[i].pattern = <<>> \/ ~GlobMatch(NameChars(n), cfg.skills[i].pattern)

\* C11: a modified event for a file name that matches no configured pattern
\* ends at once, with no readiness check, read, append or archive and no change
\* of the handler's state or of the file system; a created event for any path
\* that is not a directory always goes to the readiness check, and a readiness
\* check that returns True always goes on to process_file.
C11_ModifiedFilteredCreatedAlways ==
    /\ [][ (pc = "idle" /\ pc' # pc /\ event'.kind = "modified" /\ ~event'.is_directory
            /\ NoPatternMatches(config, event'.src_path[Len(event'.src_path)]))
           => ( /\ pc' = "done"
                /\ outcome' = "Filtered"
                /\ UNCHANGED << fs, waitVars, fileVars, sentVars, docs_service,
                                last_processed, did, observed, appendCount >> ) ]_vars
    /\ [][ (pc = "idle" /\ pc' # pc /\ event'.kind = "created" /\ ~event'.is_directory)
           => pc' = "wait_for_file_ready" ]_vars
    /\ [][ (pc = "wait_loop" /\ pc' # pc)
           => (pc' = "process_file" <=> observed'.stable) ]_vars
    /\ [](pc = "done" /\ outcome = "Filtered" => did = {} /\ observed = NoObservation)

\* C11 witness: a created event for a file that matches no pattern passed the
\* readiness check and reached process_file, where it is ignored.
C11_Witness ==
    /\ pc = "done"
    /\ outcome = "Ignored"
    /\ event.kind = "created"
    /\ NoPatternMatches(config, event.src_path[Len(event.src_path)])
    /\ observed.stable

\* C12: the steps of one handling come in the order of the lifecycle: an
\* append only after the readiness check returned ready, a skill matched and
\* the read gave a content; the marker only after the append; the archive step
\* only after the marker; and nothing of a later stage once an earlier one
\* ended as Abandoned, Ignored or Failed.
C12_LifecycleOrder ==
    /\ did # {} => observed.stable /\ skill_config \notin {NoSkill, KeyError}
    /\ (did \cap {"chmod", "init", "append", "append_failed"}) # {}
          => "read" \in did /\ content # <<>>
    /\ "mark" \in did <=> "append" \in did
    /\ "append" \in did => file_id \in last_processed
    /\ (did \cap {"move", "archive_failed"}) # {} => "mark" \in did
    /\ pc = "archive" => "mark" \in did
    /\ (pc = "done" /\ outcome \in {"Abandoned", "Ignored", "Skipped", "FailedMatch"}) => did = {}
    /\ (pc = "done" /\ outcome \in {"FailedRead", "EmptyRead"}) => did = {"read"}
    /\ (pc = "done" /\ outcome \in {"FailedInit", "FailedAppend"})
          => (did \cap {"append", "mark", "move", "archive_failed"}) = {}
    /\ pc \in {"wait_for_file_ready", "wait_loop", "process_file"} => did = {}

\* C12 witness: a handling went through every stage and ended with the file
\* moved to the archive folder.
C12_Witness ==
    /\ pc = "done"
    /\ outcome = "Archived"
    /\ {"read", "chmod", "append", "mark", "move"} \subseteq did

\* C13: _read_file_with_retry opens the file at most 5 times; the k-th
\* permission-denied failure, k = 1..4, is followed by a sleep of 0.5 s times k
\* and another attempt; the attempt that ends the reading (a success, any
\* other failure, or the 5th permission-denied failure) is followed by no sleep
\* and no further attempt.
C13_ReadRetries ==
    /\ [](reading.attempts <= 5)
    /\ [](/\ Len(reading.waits) <= 4
          /\ \A k \in 1..Len(reading.waits) : reading.waits[k] = 500 * k)
    /\ [](pc = "read" => Len(reading.waits) = reading.attempts /\ attempt = reading.attempts)
    /\ [](pc \in {"chmod", "init", "append", "archive"}
             => Len(reading.waits) = reading.attempts - 1)
    /\ [][ (pc = "read" /\ pc' # "read")
           => ( /\ reading'.attempts = reading.attempts + 1
                /\ reading'.waits = reading.waits ) ]_vars
    /\ [][ (pc = "read" /\ pc' = "read" /\ reading' # reading)
           => ( /\ reading'.attempts = reading.attempts + 1
                /\ reading'.attempts <= 4
                /\ reading'.waits = Append(reading.waits, 500 * reading'.attempts) ) ]_vars
    /\ [][ pc # "read" /\ pc' # "idle" => reading' = reading ]_vars

\* C13 witness: five attempts were denied, with four sleeps between them, and
\* the failure was propagated.
C13_Witness ==
    /\ pc = "done"
    /\ outcome = "FailedRead"
    /\ reading.attempts = 5
    /\ reading.waits = <<500, 1000, 1500, 2000>>

\* C14: an append is only ever tried with the client established; the client
\* is established only while it is unset; an establishment that fails leaves
\* it unset and ends the handling with no append and no marker; once
\* established, the client stays and is not established again.
C14_LazyServiceOnce ==
    /\ []((pc = "append" \/ "append" \in did \/ "append_failed" \in did) => docs_service)
    /\ [](pc = "init" => ~docs_service)
    /\ []((pc = "done" /\ outcome = "FailedInit")
             => ( /\ ~docs_service
                  /\ "append" \notin did
                  /\ file_id \notin last_processed ))
    /\ [][ docs_service => (docs_service' /\ ("init" \in did' => "init" \in did)) ]_vars
    /\ [][ (pc = "init" /\ pc' = "done")
           => (~docs_service' /\ UNCHANGED << last_processed, appendCount, fs >>) ]_vars

\* C14 witness: a file is appended in a handling that did not establish the
\* client, because an earlier handling had.
C14_Witness ==
    /\ pc = "archive"
    /\ "append" \in did
    /\ "init" \notin did
    /\ docs_service

\* C15: a size-read error in _wait_for_file_ready uses up exactly one attempt
\* and leaves last_size alone; the loop goes on unless this was the last
\* attempt of the budget; errors and successful size reads together never
\* exceed 10.
C15_SizeErrorUsesOneAttempt ==
    /\ [][ observed'.errors = observed.errors + 1
           => ( /\ pc = "wait_loop"
                /\ retry_count' = retry_count + 1
                /\ last_size' = last_size
                /\ observed'.n = observed.n
                /\ IF retry_count' < 10
                   THEN pc' = "wait_loop" /\ outcome' = outcome
                   ELSE pc' = "done" /\ outcome' = "Abandoned" ) ]_vars
    /\ [](observed.n + observed.errors <= 10)
    /\ [](pc = "wait_loop" => retry_count = observed.n + observed.errors /\ retry_count < 10)

\* C15 witness: after two size-read errors the loop went on and the file was
\* found ready.
C15_Witness ==
    /\ pc = "process_file"
    /\ observed.errors >= 2
    /\ observed.stable

\* a round of the loop of _wait_for_file_ready that leads to a retry
RetryStep == pc = "wait_loop" /\ retry_count' = retry_count + 1
\* the interval times 1.5, capped at 2 s (in 1/1024 ms)
TimesOneAndAHalf(w, w2) == IF 3 * w < 2 * 2048000 THEN 2 * w2 = 3 * w ELSE w2 = 2048000

\* C16 as stated: the interval is 100 ms before the first retry, is multiplied
\* by 1.5 (capped at 2 s) at every retry, retries after a size-read error
\* included, never decreases and never exceeds 2 s.
C16_BackoffAtEveryRetry ==
    /\ [](pc = "wait_loop" /\ retry_count = 0 => wait_time = 102400)
    /\ [](wait_time >= 102400 /\ wait_time <= 2048000)
    /\ [][ RetryStep => TimesOneAndAHalf(wait_time, wait_time') ]_vars
    /\ [][ pc = "wait_loop" => wait_time' >= wait_time ]_vars

\* C16 amended: the interval is 100 ms before the first retry, is multiplied by
\* 1.5 (capped at 2 s) at every retry that follows a size read, is left as it
\* is at a retry that follows a size-read error, never decreases and never
\* exceeds 2 s.
C16_BackoffAfterSizeRead ==
    /\ [](pc = "wait_loop" /\ retry_count = 0 => wait_time = 102400)
    /\ [](wait_time >= 102400 /\ wait_time <= 2048000)
    /\ [][ (RetryStep /\ observed'.n = observed.n + 1)
           => TimesOneAndAHalf(wait_time, wait_time') ]_vars
    /\ [][ (RetryStep /\ observed'.errors = observed.errors + 1)
           => wait_time' = wait_time ]_vars
    /\ [][ pc = "wait_loop" => wait_time' >= wait_time ]_vars

\* C16 witness: the interval has reached its cap of 2 s, after size reads and
\* a size-read error.
C16_Witness ==
    /\ pc = "wait_loop"
    /\ wait_time = 2048000
    /\ observed.errors >= 1

\* the terminal outcomes the lifecycle names, read generously: an event the
\* dispatcher drops and a duplicate count as Ignored, a missing file as
\* Abandoned, an empty read and a matcher failure as Failed(read), a failed
\* client establishment as Failed(append), and every ending after a successful
\* append as Archived or success-with-warning
ListedOutcomes ==
    { "Directory", "Filtered", "Skipped", "Ignored", "Abandoned",
      "EmptyRead", "FailedMatch", "FailedRead", "FailedInit", "FailedAppend",
      "Archived", "StayedInPlace", "ArchiveFailed" }

\* C17 as stated: the handling of an event ends in one of the listed terminal
\* outcomes, after at most 10 readiness attempts and at most 5 read attempts.
C17_EndsInListedOutcome ==
    /\ retry_count <= 10
    /\ reading.attempts <= 5
    /\ observed.n + observed.errors <= 10
    /\ pc = "done" => outcome \in ListedOutcomes

\* C18 as stated: the modification time stored in the marker is the
\* modification time of the file version whose content was read and appended.
C18_MarkerIsVersionRead ==
    "mark" \in did =>
        /\ file_id \in last_processed
        /\ content = ContentOf([mtime |-> file_id[2], size |-> Len(content)])

\* _match_file_to_skill(filename) selects a skill
Selects(cfg, n) == match_file_to_skill(cfg, n) \notin {NoSkill, KeyError}

\* C19 as stated: for every filename and every configuration the filter is
\* true exactly when the matcher selects a skill.
C19_FilterIffMatcherSelects ==
    \A n \in FileNames : matches_any_pattern(config, n) <=> Selects(config, n)

\* C19 amended: the filter is true exactly when the matcher finds an entry
\* whose pattern matches; the matcher then selects that entry if it has a
\* doc_id and raises KeyError if it has none, so a modification event is never
\* dropped for a file the matcher would select, and one let through is either
\* selected or ends in the KeyError that process_file catches.
C19_FilterIffMatcherFindsEntry ==
    /\ [](\A n \in FileNames :
            /\ matches_any_pattern(config, n) <=> match_file_to_skill(config, n) # NoSkill
            /\ Selects(config, n) => matches_any_pattern(config, n)
            /\ (matches_any_pattern(config, n) /\ ~Selects(config, n))
                  => match_file_to_skill(config, n) = KeyError)
    /\ []((pc = "done" /\ outcome = "Filtered")
            => match_file_to_skill(config, Basename(event.src_path)) = NoSkill)
    /\ []((pc = "done" /\ event.kind = "modified" /\ ~event.is_directory)
            => outcome # "Ignored")
    /\ [][ (pc = "process_file" /\ event.kind = "modified" /\ pc' = "done")
           => outcome' \in {"Escaped", "Skipped", "FailedMatch"} ]_vars

\* C19 witness: a modification event passed the filter for a file whose
\* matching entry has no doc_id, and the matcher raised.
C19_Witness ==
    /\ pc = "done"
    /\ event.kind = "modified"
    /\ outcome = "FailedMatch"
    /\ matches_any_pattern(config, Basename(event.src_path))

\* C20: an append is never issued with empty content; a read that returns
\* the empty string ends process_file with no permission change, client
\* establishment, append, marker or move, and the file stays where it is.
C20_NoAppendOfEmptyContent ==
    /\ []((pc = "append" \/ "append" \in did \/ "append_failed" \in did) => content # <<>>)
    /\ [](requests # <<>> => content # <<>>)
    /\ []((pc = "done" /\ outcome = "EmptyRead")
            => ( /\ content = <<>>
                 /\ did = {"read"}
                 /\ file_id \notin last_processed
                 /\ appendCount[file_id] = 0 ))
    /\ [][ (pc = "read" /\ pc' = "chmod") => content' # <<>> ]_vars
    /\ [][ (pc = "read" /\ pc' = "done" /\ outcome' = "EmptyRead")
           => UNCHANGED << fs, docs_service, last_processed, appendCount, sentVars >> ]_vars

\* C20 witness: the file was ready, was truncated before the read, and the
\* read returned the empty string.
C20_Witness ==
    /\ pc = "done"
    /\ outcome = "EmptyRead"
    /\ observed.stable
    /\ Exists(event.src_path)
    /\ FileAt(event.src_path).size = 0
====
